---- MODULE Spec2Model ----
(***************************************************************************)
(* Model of the audio transcription server (src/server.js).                *)
(*                                                                         *)
(* The server has three entry points that share three module-level         *)
(* variables (lastSummary = the stored transcript, originalSummary = the   *)
(* stored summary, awaitingAmendment):                                     *)
(*   - app.post('/transcribe'): the upload pipeline, gated by the counter  *)
(*     currentConcurrentRequests;                                          *)
(*   - bot.on('message'): the chat command dispatcher;                     *)
(*   - app.get('/summary'): a synchronous read.                            *)
(* splitMessage, the pure helper both pipelines use, is modelled on        *)
(* character sequences under its own specification.                        *)
(* The first two are async functions on a single-threaded event loop: the  *)
(* code between two awaits runs atomically, so there is one action per     *)
(* handler entry and one per completion of an awaited external call.       *)
(***************************************************************************)
EXTENDS Integers, Sequences, FiniteSets, TLC

VARIABLES lastSummary, originalSummary, awaitingAmendment,
          currentConcurrentRequests, req, chat, split, summaryResponse

vars == <<lastSummary, originalSummary, awaitingAmendment,
          currentConcurrentRequests, req, chat, split, summaryResponse>>

convState == <<lastSummary, originalSummary, awaitingAmendment>>

----------------------------------------------------------------------------
(* Program constants *)

MAX_CONCURRENT_REQUESTS == 5

MAX_TELEGRAM_MESSAGE_LENGTH == 4096

\* 10 * 1024 * 1024
MAX_FILE_SIZE_BEFORE_COMPRESSION == 10485760

(* Bounds of the model *)

\* upload requests in the admission burst (SpecBurst)
NumReq == 6

\* concurrent upload requests (SpecUpload)
MaxUploads == 2

\* upload requests next to the chat traffic (Spec)
ChatUploads == 1

\* chat messages received (Spec)
MaxMsgs == 2

\* longest text and largest maxLength given to splitMessage (SpecSplit)
MaxTextLen == 4

MaxChunk == 3

Reqs == 1..NumReq

Msgs == 1..MaxMsgs

----------------------------------------------------------------------------
(* Texts.  A text is represented by where it comes from and by its length  *)
(* after trim(); null is the JavaScript null the variables start with.     *)

Null == [kind |-> "null", up |-> 0, len |-> 0]

\* lengths of the texts the inference endpoint returns (after trim):
\* blank, shorter than one chat message, longer than one chat message
ResultLens == {0, 100, 5000}

Text(k, u, n) == [kind |-> k, up |-> u, len |-> n]

\* JavaScript truthiness of a string-or-null value
Truthy(t) == t.kind # "null" /\ t.len > 0

Min(a, b) == IF a < b THEN a ELSE b

Max(a, b) == IF a > b THEN a ELSE b

\* number of fragments splitMessage returns for a text of n characters
NumFragments(n, maxLength) == (n + maxLength - 1) \div maxLength

\* length of the i-th fragment (1-based) of a text of n characters
FragmentLen(n, maxLength, i) ==
  IF i * maxLength <= n THEN maxLength ELSE n - (i - 1) * maxLength

SummaryPrefixLen == 10

TranscriptionPointerLen == 52

\* length of combinedMessage for a summary of n characters
CombinedLen(n) == SummaryPrefixLen + n + TranscriptionPointerLen

\* lengths of the literal texts the handlers pass to bot.sendMessage
NoticeLen(k) ==
  CASE k = "transcription:"   -> 16
    [] k = "no_transcription" -> 66
    [] k = "amend_enabled"    -> 79
    [] k = "overloaded"       -> 51
    [] k = "api_error:"       -> 18
    [] k = "amended:"         -> 18
    [] k = "regen_api_error:" -> 38
    [] k = "regenerated:"     -> 22
    [] k = "no_regenerated"   -> 48
    [] k = "regen_error:"     -> 28
    [] k = "no_amended"       -> 45
    [] k = "amend_error:"     -> 24
    [] k = "no_question"      -> 37
    [] k = "upload_first"     -> 74
    [] k = "answer:"          -> 9
    [] k = "no_answer"        -> 36
    [] k = "ask_error:"       -> 26
    [] k = "updated:"         -> 18

\* a text of n characters is passed to bot.sendMessage
Passed(rec, n) == [rec EXCEPT !.maxlen = Max(@, n)]

----------------------------------------------------------------------------
(* Uploads *)

AllowedExts == {".mp3", ".wav", ".flac", ".m4a"}

Exts == AllowedExts \cup {".xyz"}

MimeOfExt(e) ==
  CASE e = ".mp3"  -> "audio/mpeg"
    [] e = ".wav"  -> "audio/wav"
    [] e = ".flac" -> "audio/flac"
    [] e = ".m4a"  -> "audio/mp4"
    [] OTHER       -> "none"

\* sizes of the uploaded buffer: below and above the compression threshold
Sizes == {1048576, 11534336}

\* req.file is undefined
NoFile == [present |-> FALSE, buffer |-> FALSE, size |-> 0, ext |-> "none"]

\* req.file without a buffer
NoBuffer == [present |-> TRUE, buffer |-> FALSE, size |-> 0, ext |-> ".mp3"]

Files == {NoFile, NoBuffer}
           \cup [present : {TRUE}, buffer : {TRUE}, size : Sizes, ext : Exts]

\* outcomes of one call of the inference endpoint, as the handlers tell
\* them apart
\*   ok         response.ok and candidates[0].content.parts[0].text present
\*   remote     !response.ok, error body with a message
\*   overloaded !response.ok, message contains 'model is overloaded'
\*   empty      response.ok but no candidate content
\*   transport  fetch() or response.json() throws, or the body lacks the
\*              field that is read (the TypeError reaches the same catch)
Outcomes == {"ok", "remote", "overloaded", "empty", "transport"}

NewReq == [pc |-> "new", file |-> NoFile, admitted |-> FALSE,
           status |-> 0, kind |-> "none", cause |-> "none", overloaded |-> FALSE,
           responses |-> 0, released |-> 0,
           mime |-> "none", encoding |-> "none",
           tcalls |-> 0, scalls |-> 0, wroteT |-> FALSE, wroteS |-> FALSE,
           len |-> 0, nfrag |-> 0, frag |-> 0, sent |-> 0, notices |-> 0,
           maxlen |-> 0]

\* variant: the test of line 262 written with > in place of >=
AdmitOffByOne(n) == n <= MAX_CONCURRENT_REQUESTS

\* the admission test of line 262: the request may enter
Admit(n) == n < MAX_CONCURRENT_REQUESTS

\* res.status(st).json(...) followed by return
Respond(rec, st, kd, cs) ==
  [rec EXCEPT !.pc = "done", !.status = st, !.kind = kd, !.cause = cs,
              !.responses = @ + 1, !.len = 0]

\* variant: a return that leaves the handler without the finally block
FinishNoRelease(r, rec, n, st, kd, cs) ==
  /\ req' = [req EXCEPT ![r] = Respond(rec, st, kd, cs)]
  /\ currentConcurrentRequests' = n

\* variant: the counter is decremented at the end of the success path
\* instead of in a finally block
FinishReleaseOnSuccess(r, rec, n, st, kd, cs) ==
  IF st = 200
  THEN /\ req' = [req EXCEPT ![r] = [Respond(rec, st, kd, cs) EXCEPT !.released = @ + 1]]
       /\ currentConcurrentRequests' = n - 1
  ELSE /\ req' = [req EXCEPT ![r] = Respond(rec, st, kd, cs)]
       /\ currentConcurrentRequests' = n

\* a return inside the try block: the response, then the finally block of
\* lines 447-449
Finish(r, rec, n, st, kd, cs) ==
  /\ req' = [req EXCEPT ![r] = [Respond(rec, st, kd, cs) EXCEPT !.released = @ + 1]]
  /\ currentConcurrentRequests' = n - 1

\* lines 306-349: the extension check, then the transcription call is issued
AfterEncode(r, rec, n) ==
  IF rec.file.ext \notin AllowedExts
  THEN Finish(r, rec, n, 400, "unsupported_type", "validation")
  ELSE /\ req' = [req EXCEPT ![r] =
                    [rec EXCEPT !.pc = "transcribing",
                                !.mime = MimeOfExt(rec.file.ext),
                                !.tcalls = @ + 1]]
       /\ currentConcurrentRequests' = n

\* variant: the counter incremented before the test of line 262
RejectCounting(r) ==
  /\ req' = [req EXCEPT ![r] = Respond(req[r], 429, "too_many", "admission")]
  /\ currentConcurrentRequests' = currentConcurrentRequests + 1

\* line 263: the request is refused
Reject(r) ==
  /\ req' = [req EXCEPT ![r] = Respond(req[r], 429, "too_many", "admission")]
  /\ UNCHANGED currentConcurrentRequests

\* lines 261-304: the handler is entered with the parsed upload f and runs to
\* its first await.  Requests are numbered in the order in which they enter.
Arrive(r, f) ==
  /\ req[r].pc = "new"
  /\ \A q \in Reqs : q < r => req[q].pc # "new"
  /\ IF ~Admit(currentConcurrentRequests)
     THEN Reject(r)
     ELSE LET n   == currentConcurrentRequests + 1
              rec == [req[r] EXCEPT !.file = f, !.admitted = TRUE,
                                    !.encoding = "original"]
          IN  IF ~f.present
              THEN Finish(r, rec, n, 400, "no_file", "validation")
              ELSE IF ~f.buffer
              THEN Finish(r, rec, n, 500, "no_buffer", "validation")
              ELSE IF f.size > MAX_FILE_SIZE_BEFORE_COMPRESSION
              THEN /\ req' = [req EXCEPT ![r] =
                                [rec EXCEPT !.pc = "transcoding",
                                            !.encoding = "transcoding"]]
                   /\ currentConcurrentRequests' = n
              ELSE AfterEncode(r, rec, n)
  /\ UNCHANGED <<convState, chat, split, summaryResponse>>

\* lines 290-320: ffmpeg exits
TranscodeDone(r, ok) ==
  /\ req[r].pc = "transcoding"
  /\ IF ok
     THEN AfterEncode(r, [req[r] EXCEPT !.encoding = "mp3", !.mime = "audio/mpeg"],
                      currentConcurrentRequests)
     ELSE Finish(r, [req[r] EXCEPT !.encoding = "failed"], currentConcurrentRequests,
                 500, "processing_error", "transcoding")
  /\ UNCHANGED <<convState, chat, split, summaryResponse>>

\* the transcoder was started for this upload (lines 281-296)
TranscoderInvoked(rec) == rec.encoding \in {"transcoding", "mp3", "failed"}

\* the request body (payload) is not referenced again once the
\* transcription call has returned
Consumed(rec) ==
  [rec EXCEPT !.file = NoFile, !.mime = "none", !.encoding = "none"]

\* variant: a failed transcription call that falls through to the summary call
TranscribeFailedContinue(r, o) ==
  /\ req' = [req EXCEPT ![r] = [Consumed(@) EXCEPT !.pc = "summarizing",
                                                   !.cause = "transcription",
                                                   !.scalls = @ + 1]]
  /\ UNCHANGED <<convState, currentConcurrentRequests, chat, split, summaryResponse>>

\* lines 351-364 and 441-446: the transcription call did not yield a text
TranscribeFailed(r, o) ==
  /\ IF o = "overloaded"
     THEN /\ req' = [req EXCEPT ![r] =
                        [Passed(Consumed(@), NoticeLen("overloaded"))
                           EXCEPT !.pc = "notifyT", !.cause = "transcription",
                                  !.overloaded = TRUE]]
          /\ UNCHANGED currentConcurrentRequests
     ELSE Finish(r, Consumed(req[r]), currentConcurrentRequests, 500,
                 CASE o = "remote" -> "remote_error"
                   [] o = "empty"  -> "empty_content"
                   [] OTHER        -> "api_call_error",
                 "transcription")
  /\ UNCHANGED <<convState, chat, split, summaryResponse>>

\* lines 366-397: the transcript is stored and the summary call is issued
TranscribeOk(r, n) ==
  LET text == Text("transcript", r, n)
  IN  /\ lastSummary' = text
      /\ req' = [req EXCEPT ![r] = [Consumed(@) EXCEPT !.pc = "summarizing",
                                             !.wroteT = TRUE,
                                             !.scalls = @ + 1]]
      /\ UNCHANGED <<originalSummary, awaitingAmendment,
                     currentConcurrentRequests, chat, split, summaryResponse>>

\* lines 343-397 and 441-446: the transcription call returns
TranscribeDone(r, o, n) ==
  /\ req[r].pc = "transcribing"
  /\ IF o = "ok" THEN TranscribeOk(r, n) ELSE n = 0 /\ TranscribeFailed(r, o)

\* lines 398-411 and 434-440: the summary call did not yield a text
SummarizeFailed(r, o) ==
  /\ IF o = "overloaded"
     THEN /\ req' = [req EXCEPT ![r] =
                        [Passed(@, NoticeLen("overloaded"))
                           EXCEPT !.pc = "notifyS", !.cause = "summarization",
                                  !.overloaded = TRUE]]
          /\ UNCHANGED currentConcurrentRequests
     ELSE Finish(r, req[r], currentConcurrentRequests, 500,
                 CASE o = "remote" -> "remote_error"
                   [] o = "empty"  -> "empty_summary"
                   [] OTHER        -> "summary_call_error",
                 "summarization")
  /\ UNCHANGED <<convState, chat, split, summaryResponse>>

\* lines 412-428: the summary is stored and the chat message is composed
SummarizeOk(r, n) ==
  LET text == Text("summary", r, n)
  IN  /\ originalSummary' = text
      /\ req' = [req EXCEPT ![r] =
                   [Passed(@, FragmentLen(CombinedLen(n), MAX_TELEGRAM_MESSAGE_LENGTH, 1))
                      EXCEPT !.pc = "delivering",
                             !.wroteS = TRUE,
                             !.len = CombinedLen(n),
                             !.nfrag = NumFragments(CombinedLen(n), MAX_TELEGRAM_MESSAGE_LENGTH),
                             !.frag = 1]]
      /\ UNCHANGED <<lastSummary, awaitingAmendment,
                     currentConcurrentRequests, chat, split, summaryResponse>>

\* lines 391-428 and 434-440: the summary call returns
SummarizeDone(r, o, n) ==
  /\ req[r].pc = "summarizing"
  /\ IF o = "ok" THEN SummarizeOk(r, n) ELSE n = 0 /\ SummarizeFailed(r, o)

\* variant: res.status(503) without return, so that the res.status(500) of
\* the next line answers as well
NotifyDoneNoReturn(r, ok) ==
  /\ req[r].pc \in {"notifyT", "notifyS"}
  /\ IF ok
     THEN Finish(r, [req[r] EXCEPT !.notices = @ + 1, !.responses = @ + 1],
                 currentConcurrentRequests, 500, "remote_error", req[r].cause)
     ELSE Finish(r, req[r], currentConcurrentRequests, 500,
                 IF req[r].pc = "notifyT" THEN "api_call_error"
                                          ELSE "summary_call_error",
                 req[r].cause)
  /\ UNCHANGED <<convState, chat, split, summaryResponse>>

\* lines 360-361, 407-408, 437-439, 444-445: the awaited 'try again later'
\* notice was delivered, or bot.sendMessage rejected and the enclosing
\* catch block answers
NotifyDone(r, ok) ==
  /\ req[r].pc \in {"notifyT", "notifyS"}
  /\ IF ok
     THEN Finish(r, [req[r] EXCEPT !.notices = @ + 1], currentConcurrentRequests,
                 503, "overloaded", req[r].cause)
     ELSE Finish(r, req[r], currentConcurrentRequests, 500,
                 IF req[r].pc = "notifyT" THEN "api_call_error"
                                          ELSE "summary_call_error",
                 req[r].cause)
  /\ UNCHANGED <<convState, chat, split, summaryResponse>>

\* variant: a failed delivery that resets the stored texts
DeliverFailedRollback(r) ==
  /\ Finish(r, req[r], currentConcurrentRequests,
            500, "summary_call_error", "delivery")
  /\ lastSummary' = Null
  /\ originalSummary' = Null
  /\ UNCHANGED <<awaitingAmendment, chat, split, summaryResponse>>

\* lines 437-439: bot.sendMessage rejected while a fragment was delivered
DeliverFailed(r) ==
  /\ Finish(r, req[r], currentConcurrentRequests,
            500, "summary_call_error", "delivery")
  /\ UNCHANGED <<convState, chat, split, summaryResponse>>

\* variant: the response is sent after the first fragment was delivered
DeliverOkFirstOnly(r) ==
  /\ Finish(r, [req[r] EXCEPT !.sent = @ + 1], currentConcurrentRequests,
            200, "ok", "none")
  /\ UNCHANGED <<convState, chat, split, summaryResponse>>

\* lines 430-433: one fragment was delivered
DeliverOk(r) ==
  /\ IF req[r].frag = req[r].nfrag
     THEN Finish(r, [req[r] EXCEPT !.sent = @ + 1], currentConcurrentRequests,
                 200, "ok", "none")
     ELSE /\ req' = [req EXCEPT ![r] =
                        [Passed(@, FragmentLen(@.len, MAX_TELEGRAM_MESSAGE_LENGTH, @.frag + 1))
                           EXCEPT !.sent = @ + 1, !.frag = @ + 1]]
          /\ UNCHANGED currentConcurrentRequests
  /\ UNCHANGED <<convState, chat, split, summaryResponse>>

\* lines 430-439: the awaited bot.sendMessage of a fragment settles
DeliverDone(r, ok) ==
  /\ req[r].pc = "delivering"
  /\ IF ok THEN DeliverOk(r) ELSE DeliverFailed(r)

----------------------------------------------------------------------------
(* Chat messages *)

\* texts of inbound chat messages; "none" is a message without text
\* (msg.text undefined), "/other" an unknown command, "plain" free text
MsgTexts == {"none", "/transcription", "/amend", "/ask", "/ask q", "/other", "plain"}

Senders == {"target", "other"}

\* variant: the dispatcher without the chat id test of line 41
FromAnyone(from) == TRUE

\* line 41: msg.chat.id.toString() === TELEGRAM_CHAT_ID
FromTarget(from) == from = "target"

\* msg.text is truthy
HasText(t) == t # "none"

\* msg.text.trim() === '/transcription'
IsTranscriptionCmd(t) == t = "/transcription"

\* msg.text.trim() === '/amend'
IsAmendCmd(t) == t = "/amend"

\* msg.text.startsWith('/ask')
StartsWithAsk(t) == t \in {"/ask", "/ask q"}

\* msg.text.replace('/ask', '').trim() is not empty
HasQuestion(t) == t = "/ask q"

\* msg.text.startsWith('/')
StartsWithSlash(t) == t \in {"/transcription", "/amend", "/ask", "/ask q", "/other"}

\* length of the raw text of a free-text message
PlainLen == 100

\* length of the error text of a failed call (errorData.error.message,
\* err.message)
ErrLen == 40

NewChat == [pc |-> "new", from |-> "none", text |-> "none", branch |-> "none",
            base |-> Null, origin |-> 0, stale |-> FALSE,
            calls |-> 0, results |-> 0, sent |-> 0, len |-> 0, nfrag |-> 0,
            frag |-> 0, maxlen |-> 0]

\* the handler returns (or ends by an exception no one awaits); its locals
\* are gone
ChatEnd(m, rec) ==
  chat' = [chat EXCEPT ![m] = [rec EXCEPT !.pc = "done", !.base = Null,
                                          !.origin = 0,
                                          !.len = 0, !.nfrag = 0, !.frag = 0]]

\* the last awaited bot.sendMessage of the handler was delivered, then return
ChatSent(m, rec) == ChatEnd(m, [rec EXCEPT !.sent = @ + 1])

\* bot.sendMessage(...) of a text of n characters without await, then return
ChatReply(m, rec, n) == ChatSent(m, Passed(rec, n))

\* variant: the /amend guard without lastSummary !== null
AmendGuardNoTranscript(t) == HasText(t) /\ IsAmendCmd(t)

\* line 55: the guard of the /amend branch
AmendGuard(t) == lastSummary # Null /\ HasText(t) /\ IsAmendCmd(t)

\* variant: the amendment branch takes only texts without a leading '/'
InstructionGuardTextOnly(t) ==
  lastSummary # Null /\ awaitingAmendment /\ HasText(t) /\ ~StartsWithSlash(t)

\* line 60: the guard of the amendment branch
InstructionGuard(t) ==
  lastSummary # Null /\ awaitingAmendment /\ HasText(t) /\ ~IsAmendCmd(t)

\* line 237: the guard of the direct overwrite branch
OverwriteGuard(t) ==
  lastSummary # Null /\ ~awaitingAmendment /\ HasText(t) /\ ~StartsWithSlash(t)

\* lines 42-54: /transcription
TranscriptionCmd(m, rec) ==
  /\ IF Truthy(lastSummary)
     THEN chat' = [chat EXCEPT ![m] =
                     [Passed(rec, NoticeLen("transcription:")
                                  + FragmentLen(lastSummary.len, MAX_TELEGRAM_MESSAGE_LENGTH, 1))
                        EXCEPT !.pc = "sendingT", !.branch = "transcription",
                               !.len = lastSummary.len,
                               !.nfrag = NumFragments(lastSummary.len, MAX_TELEGRAM_MESSAGE_LENGTH),
                               !.frag = 1]]
     ELSE ChatReply(m, [rec EXCEPT !.branch = "transcription"],
                    NoticeLen("no_transcription"))
  /\ UNCHANGED <<convState, currentConcurrentRequests, req, split, summaryResponse>>

\* lines 55-59: /amend
AmendCmd(m, rec) ==
  /\ awaitingAmendment' = TRUE
  /\ ChatReply(m, [rec EXCEPT !.branch = "amend"], NoticeLen("amend_enabled"))
  /\ UNCHANGED <<lastSummary, originalSummary, currentConcurrentRequests, req, split, summaryResponse>>

\* the upload whose texts the amendment prompt of lines 64-75 is built
\* from: that of the summary it embeds or, when no summary is stored, that
\* of the stored transcript
Origin == IF originalSummary = Null THEN lastSummary.up ELSE originalSummary.up

\* the summary this handler's pending call was computed from (rec.base) has
\* meanwhile been replaced by an upload's summary (line 420)
Stale(rec) == originalSummary.kind = "summary" /\ originalSummary # rec.base

\* variant: the amendment branch without line 62
AmendInstructionKeepFlag(m, rec) ==
  /\ chat' = [chat EXCEPT ![m] =
                [rec EXCEPT !.pc = "amending", !.branch = "instruction",
                            !.base = originalSummary, !.origin = Origin,
                            !.calls = @ + 1]]
  /\ UNCHANGED <<convState, currentConcurrentRequests, req, split, summaryResponse>>

\* lines 60-83: the message is taken as the amendment instruction and the
\* amendment call is issued
AmendInstruction(m, rec) ==
  /\ awaitingAmendment' = FALSE
  /\ chat' = [chat EXCEPT ![m] =
                [rec EXCEPT !.pc = "amending", !.branch = "instruction",
                            !.base = originalSummary, !.origin = Origin,
                            !.calls = @ + 1]]
  /\ UNCHANGED <<lastSummary, originalSummary, currentConcurrentRequests, req, split, summaryResponse>>

\* variant: the /ask branch that only requires a transcript (line 175
\* without || !originalSummary)
AskCmdNoSummaryCheck(m, rec) ==
  /\ IF ~HasQuestion(rec.text)
     THEN ChatReply(m, [rec EXCEPT !.branch = "ask"], NoticeLen("no_question"))
     ELSE IF ~Truthy(lastSummary)
     THEN ChatReply(m, [rec EXCEPT !.branch = "ask"], NoticeLen("upload_first"))
     ELSE chat' = [chat EXCEPT ![m] =
                     [rec EXCEPT !.pc = "asking", !.branch = "ask", !.calls = @ + 1]]
  /\ UNCHANGED <<convState, currentConcurrentRequests, req, split, summaryResponse>>

\* lines 169-200: /ask
AskCmd(m, rec) ==
  /\ IF ~HasQuestion(rec.text)
     THEN ChatReply(m, [rec EXCEPT !.branch = "ask"], NoticeLen("no_question"))
     ELSE IF ~Truthy(lastSummary) \/ ~Truthy(originalSummary)
     THEN ChatReply(m, [rec EXCEPT !.branch = "ask"], NoticeLen("upload_first"))
     ELSE chat' = [chat EXCEPT ![m] =
                     [rec EXCEPT !.pc = "asking", !.branch = "ask", !.calls = @ + 1]]
  /\ UNCHANGED <<convState, currentConcurrentRequests, req, split, summaryResponse>>

\* variant: the raw text is assigned to lastSummary, the variable that held
\* the summary before the transcript was stored separately
OverwriteLastSummary(m, rec) ==
  /\ lastSummary' = Text("manual", lastSummary.up, PlainLen)
  /\ ChatReply(m, [rec EXCEPT !.branch = "overwrite"],
               NoticeLen("updated:") + PlainLen)
  /\ UNCHANGED <<originalSummary, awaitingAmendment, currentConcurrentRequests, req, split, summaryResponse>>

\* lines 237-240: free text replaces the summary
Overwrite(m, rec) ==
  /\ originalSummary' = Text("manual", lastSummary.up, PlainLen)
  /\ ChatReply(m, [rec EXCEPT !.branch = "overwrite"],
               NoticeLen("updated:") + PlainLen)
  /\ UNCHANGED <<lastSummary, awaitingAmendment, currentConcurrentRequests, req, split, summaryResponse>>

\* lines 40-242: a chat message arrives; the handler runs to its first
\* await.  Messages are numbered in the order in which they arrive.
Receive(m, from, t) ==
  /\ chat[m].pc = "new"
  /\ \A q \in Msgs : q < m => chat[q].pc # "new"
  /\ LET rec == [chat[m] EXCEPT !.from = from, !.text = t]
     IN  IF ~FromTarget(from)
         THEN ChatEnd(m, rec) /\ UNCHANGED <<convState, currentConcurrentRequests, req, split, summaryResponse>>
         ELSE IF HasText(t) /\ IsTranscriptionCmd(t)
         THEN TranscriptionCmd(m, rec)
         ELSE IF AmendGuard(t)
         THEN AmendCmd(m, rec)
         ELSE IF InstructionGuard(t)
         THEN AmendInstruction(m, rec)
         ELSE IF HasText(t) /\ StartsWithAsk(t)
         THEN AskCmd(m, rec)
         ELSE IF OverwriteGuard(t)
         THEN Overwrite(m, rec)
         ELSE ChatEnd(m, rec) /\ UNCHANGED <<convState, currentConcurrentRequests, req, split, summaryResponse>>

\* lines 45-49: the awaited bot.sendMessage of a transcript fragment settles
TSendDone(m, ok) ==
  /\ chat[m].pc = "sendingT"
  /\ IF ~ok
     THEN ChatEnd(m, chat[m])
     ELSE IF chat[m].frag = chat[m].nfrag
     THEN ChatSent(m, chat[m])
     ELSE chat' = [chat EXCEPT ![m] =
                     [Passed(@, FragmentLen(@.len, MAX_TELEGRAM_MESSAGE_LENGTH, @.frag + 1))
                        EXCEPT !.sent = @ + 1, !.frag = @ + 1]]
  /\ UNCHANGED <<convState, currentConcurrentRequests, req, split, summaryResponse>>

\* lines 96, 142, 156-165, 214, 229-233: the text that reports a failed call
FailureNoticeLen(pc, o) ==
  CASE o = "remote" /\ pc = "regenerating" -> NoticeLen("regen_api_error:") + ErrLen
    [] o = "remote"                         -> NoticeLen("api_error:") + ErrLen
    [] o = "empty" /\ pc = "amending"       -> NoticeLen("no_amended")
    [] o = "empty" /\ pc = "regenerating"   -> NoticeLen("no_regenerated")
    [] o = "empty"                          -> NoticeLen("no_answer")
    [] pc = "amending"                      -> NoticeLen("amend_error:") + ErrLen
    [] pc = "regenerating"                  -> NoticeLen("regen_error:") + ErrLen
    [] OTHER                                -> NoticeLen("ask_error:") + ErrLen

\* variant: a failed regeneration call discards the amended summary
ChatCallFailedRollback(m, o) ==
  /\ IF o = "overloaded"
     THEN chat' = [chat EXCEPT ![m] =
                     [Passed(@, NoticeLen("overloaded")) EXCEPT !.pc = "notify"]]
     ELSE ChatReply(m, chat[m], FailureNoticeLen(chat[m].pc, o))
  /\ originalSummary' =
       IF chat[m].pc = "regenerating" THEN Null ELSE originalSummary
  /\ UNCHANGED <<lastSummary, awaitingAmendment, currentConcurrentRequests,
                 req, split, summaryResponse>>

\* lines 84-98, 130-144, 202-216, 161-166, 155-160, 228-234: a call of the
\* dispatcher did not yield a text; the chat is told
ChatCallFailed(m, o) ==
  /\ IF o = "overloaded"
     THEN chat' = [chat EXCEPT ![m] =
                     [Passed(@, NoticeLen("overloaded")) EXCEPT !.pc = "notify"]]
     ELSE ChatReply(m, chat[m], FailureNoticeLen(chat[m].pc, o))
  /\ UNCHANGED <<convState, currentConcurrentRequests, req, split, summaryResponse>>

\* lines 99-129: the amended summary is stored and the regeneration call issued
AmendOk(m, n) ==
  /\ originalSummary' = Text("amended", chat[m].origin, n)
  /\ chat' = [chat EXCEPT ![m] =
                [Passed(@, NoticeLen("amended:") + n)
                   EXCEPT !.pc = "regenerating", !.sent = @ + 1, !.calls = @ + 1,
                          !.results = @ + 1,
                          !.base = Text("amended", chat[m].origin, n),
                          !.stale = @ \/ Stale(chat[m])]]
  /\ UNCHANGED <<lastSummary, awaitingAmendment, currentConcurrentRequests, req, split, summaryResponse>>

\* lines 77-129 and 161-166: the amendment call returns
AmendDone(m, o, n) ==
  /\ chat[m].pc = "amending"
  /\ IF o = "ok" THEN AmendOk(m, n) ELSE n = 0 /\ ChatCallFailed(m, o)

\* lines 145-154: the regenerated summary is stored
RegenOk(m, n) ==
  /\ originalSummary' = Text("regenerated", chat[m].origin, n)
  /\ ChatReply(m, [chat[m] EXCEPT !.stale = @ \/ Stale(chat[m]),
                                  !.results = @ + 1],
               NoticeLen("regenerated:") + n)
  /\ UNCHANGED <<lastSummary, awaitingAmendment, currentConcurrentRequests, req, split, summaryResponse>>

\* lines 123-160: the regeneration call returns
RegenDone(m, o, n) ==
  /\ chat[m].pc = "regenerating"
  /\ IF o = "ok" THEN RegenOk(m, n) ELSE n = 0 /\ ChatCallFailed(m, o)

\* variant: the answer is stored as the summary before it is relayed
AskDoneStoresAnswer(m, o, n) ==
  /\ chat[m].pc = "asking"
  /\ IF o = "ok"
     THEN /\ ChatReply(m, [chat[m] EXCEPT !.results = @ + 1],
                       NoticeLen("answer:") + n)
          /\ originalSummary' = Text("answer", lastSummary.up, n)
          /\ UNCHANGED <<lastSummary, awaitingAmendment, currentConcurrentRequests, req, split, summaryResponse>>
     ELSE n = 0 /\ ChatCallFailed(m, o)

\* lines 194-234: the /ask call returns
AskDone(m, o, n) ==
  /\ chat[m].pc = "asking"
  /\ IF o = "ok"
     THEN /\ ChatReply(m, [chat[m] EXCEPT !.results = @ + 1],
                       NoticeLen("answer:") + n)
          /\ UNCHANGED <<convState, currentConcurrentRequests, req, split, summaryResponse>>
     ELSE n = 0 /\ ChatCallFailed(m, o)

\* lines 93-94, 139-140, 211-212: the awaited 'try again later' notice settles
ChatNotifyDone(m, ok) ==
  /\ chat[m].pc = "notify"
  /\ IF ok THEN ChatSent(m, chat[m]) ELSE ChatEnd(m, chat[m])
  /\ UNCHANGED <<convState, currentConcurrentRequests, req, split, summaryResponse>>

----------------------------------------------------------------------------

(* splitMessage(text, maxLength), lines 31-37, on real character          *)
(* sequences: the for loop, one iteration per step.                        *)

Chars == {"a", "b"}

RECURSIVE SeqsOfLen(_)
SeqsOfLen(n) ==
  IF n = 0 THEN {<<>>}
  ELSE {Append(t, c) : t \in SeqsOfLen(n - 1), c \in Chars}

SplitTexts == UNION {SeqsOfLen(n) : n \in 0..MaxTextLen}

\* variant: the end position is taken as inclusive of nothing before it,
\* so the last character of every fragment is dropped
SubstringShort(text, i, j) == SubSeq(text, i + 1, Min(j, Len(text)) - 1)

\* String.prototype.substring(i, j) for 0 <= i <= j: the characters at the
\* 0-based positions i .. j-1, j clipped to the length of the text
Substring(text, i, j) == SubSeq(text, i + 1, Min(j, Len(text)))

\* no call of splitMessage in progress
NoSplit == [pc |-> "idle", text |-> <<>>, maxLength |-> 1, i |-> 0,
            messages |-> <<>>]

\* a call splitMessage(text, maxLength) at 'const messages = []; let i = 0'
SplitCall(text, maxLength) ==
  [pc |-> "loop", text |-> text, maxLength |-> maxLength, i |-> 0,
   messages |-> <<>>]

\* variant: the loop also runs when i has reached the end of the text
LoopCondInclusive(i, len) == i <= len

\* the loop condition, line 33
LoopCond(i, len) == i < len

\* one iteration of the loop: lines 33-35
SplitIter ==
  /\ split.pc = "loop"
  /\ LoopCond(split.i, Len(split.text))
  /\ split' = [split EXCEPT
                 !.messages = Append(@, Substring(split.text, split.i,
                                                  split.i + split.maxLength)),
                 !.i = @ + split.maxLength]
  /\ UNCHANGED <<convState, currentConcurrentRequests, req, chat,
                 summaryResponse>>

\* the loop ends and the list is returned: line 36
SplitReturn ==
  /\ split.pc = "loop"
  /\ ~LoopCond(split.i, Len(split.text))
  /\ split' = [split EXCEPT !.pc = "returned"]
  /\ UNCHANGED <<convState, currentConcurrentRequests, req, chat,
                 summaryResponse>>

\* the concatenation of a list of fragments
RECURSIVE Concat(_)
Concat(ms) == IF ms = <<>> THEN <<>> ELSE Head(ms) \o Concat(Tail(ms))

----------------------------------------------------------------------------
(* GET /summary, lines 461-466 *)

NoResponse == [status |-> 0, body |-> Null]

GetSummary ==
  /\ summaryResponse' =
       IF lastSummary = Null THEN [status |-> 404, body |-> Null]
       ELSE [status |-> 200, body |-> lastSummary]
  /\ UNCHANGED <<convState, currentConcurrentRequests, req, chat, split>>

----------------------------------------------------------------------------
(* Specifications *)

Init ==
  /\ lastSummary = Null
  /\ originalSummary = Null
  /\ awaitingAmendment = FALSE
  /\ currentConcurrentRequests = 0
  /\ req = [r \in Reqs |-> NewReq]
  /\ chat = [m \in Msgs |-> NewChat]
  /\ split = NoSplit
  /\ summaryResponse = NoResponse

\* the upload pipeline: lines 261-450
UploadStep(r) ==
  \/ \E ok \in BOOLEAN : TranscodeDone(r, ok)
  \/ \E o \in Outcomes, n \in ResultLens : TranscribeDone(r, o, n)
  \/ \E o \in Outcomes, n \in ResultLens : SummarizeDone(r, o, n)
  \/ \E ok \in BOOLEAN : NotifyDone(r, ok)
  \/ \E ok \in BOOLEAN : DeliverDone(r, ok)

\* the chat dispatcher: lines 40-242
ChatStep(m) ==
  \/ \E ok \in BOOLEAN : TSendDone(m, ok)
  \/ \E o \in Outcomes, n \in ResultLens : AmendDone(m, o, n)
  \/ \E o \in Outcomes, n \in ResultLens : RegenDone(m, o, n)
  \/ \E o \in Outcomes, n \in ResultLens : AskDone(m, o, n)
  \/ \E ok \in BOOLEAN : ChatNotifyDone(m, ok)

\* uploads and chat messages, concurrently
Next ==
  \/ \E r \in 1..ChatUploads, f \in Files : Arrive(r, f)
  \/ \E r \in Reqs : UploadStep(r)
  \/ \E m \in Msgs, from \in Senders, t \in MsgTexts : Receive(m, from, t)
  \/ \E m \in Msgs : ChatStep(m)

Spec == Init /\ [][Next]_vars

\* concurrent uploads, no chat traffic
NextUpload ==
  \/ \E r \in 1..MaxUploads, f \in Files : Arrive(r, f)
  \/ \E r \in Reqs : UploadStep(r)

SpecUpload == Init /\ [][NextUpload]_vars

\* concurrent uploads, every awaited external call (transcoder, inference
\* endpoint, chat transport) of every upload eventually completes or errors
SpecUploadFair ==
  SpecUpload /\ \A r \in 1..MaxUploads : WF_vars(UploadStep(r))

\* concurrent uploads and queries of GET /summary
NextSummary ==
  \/ \E r \in 1..MaxUploads, f \in Files : Arrive(r, f)
  \/ \E r \in Reqs : UploadStep(r)
  \/ GetSummary

SpecSummary == Init /\ [][NextSummary]_vars

\* a burst of small uploads; the endpoint answers or refuses
BurstOutcomes == {"ok", "remote"}

BurstLen(o) == IF o = "ok" THEN 100 ELSE 0

BurstFiles ==
  {NoFile, [present |-> TRUE, buffer |-> TRUE, size |-> 1048576, ext |-> ".mp3"]}

NextBurst ==
  \/ \E r \in Reqs, f \in BurstFiles : Arrive(r, f)
  \/ \E r \in Reqs, o \in BurstOutcomes : TranscribeDone(r, o, BurstLen(o))
  \/ \E r \in Reqs, o \in BurstOutcomes : SummarizeDone(r, o, BurstLen(o))
  \/ \E r \in Reqs : DeliverDone(r, TRUE)

SpecBurst == Init /\ [][NextBurst]_vars

\* splitMessage alone, on every text and maxLength within the bounds
InitSplit ==
  /\ lastSummary = Null
  /\ originalSummary = Null
  /\ awaitingAmendment = FALSE
  /\ currentConcurrentRequests = 0
  /\ req = [r \in Reqs |-> NewReq]
  /\ chat = [m \in Msgs |-> NewChat]
  /\ split \in {SplitCall(t, l) : t \in SplitTexts, l \in 1..MaxChunk}
  /\ summaryResponse = NoResponse

NextSplit == SplitIter \/ SplitReturn

SpecSplit == InitSplit /\ [][NextSplit]_vars

----------------------------------------------------------------------------
(* Properties *)

Arrived == {r \in Reqs : req[r].pc # "new"}

Admitted == {r \in Reqs : req[r].admitted}

InFlight == {r \in Reqs : req[r].admitted /\ req[r].released = 0}

Finished(r) == req[r].pc = "done"

\* request r enters the handler in this step
Arrives(r) == req[r].pc = "new" /\ req'[r].pc # "new"

\* message m enters the dispatcher in this step
Received(m) == chat[m].pc = "new" /\ chat'[m].pc # "new"

\* C1: the counter stays within 0..MAX_CONCURRENT_REQUESTS and equals the
\* number of uploads admitted and not yet released; as long as nothing was
\* released, N arrivals admit exactly min(N, MAX_CONCURRENT_REQUESTS).
C1_CounterBounded ==
  /\ currentConcurrentRequests \in 0..MAX_CONCURRENT_REQUESTS
  /\ currentConcurrentRequests = Cardinality(InFlight)
  /\ (\A r \in Reqs : req[r].released = 0) =>
       /\ Cardinality(Admitted) = Min(Cardinality(Arrived), MAX_CONCURRENT_REQUESTS)
       /\ \A r \in Arrived : ~req[r].admitted => req[r].status = 429

C1_Witness ==
  /\ \A r \in Reqs : req[r].released = 0
  /\ Cardinality(Arrived) > MAX_CONCURRENT_REQUESTS
  /\ currentConcurrentRequests = MAX_CONCURRENT_REQUESTS
  /\ \E r \in Reqs : req[r].status = 429

\* C2: every admitted upload releases its slot exactly once, when it is
\* answered and on every exit path; when all admitted uploads have finished
\* the counter is 0 and the next upload would be admitted.
C2_ReleasedOnce ==
  /\ \A r \in Reqs :
       /\ req[r].released = (IF req[r].admitted /\ Finished(r) THEN 1 ELSE 0)
       /\ Finished(r) /\ req[r].admitted =>
            req[r].cause \in {"validation", "transcoding", "transcription",
                              "summarization", "delivery", "none"}
  /\ (\A r \in Admitted : Finished(r)) =>
       currentConcurrentRequests = 0 /\ Admit(currentConcurrentRequests)

C2_Witness ==
  \E r, q \in Reqs :
    /\ Finished(r) /\ req[r].cause = "delivery" /\ req[r].released = 1
    /\ Finished(q) /\ req[q].status = 200 /\ req[q].released = 1
    /\ q > r
    /\ currentConcurrentRequests = 0

\* C3: an upload arriving while the counter is at the ceiling is answered
\* 429 in the same step, and that step changes nothing else: not the counter,
\* not the conversation state, not another request, and the refused request
\* has started no transcoding, no inference call and no chat message.
C3_RejectNoEffect ==
  [][\A r \in Reqs :
       /\ (Arrives(r) /\ currentConcurrentRequests = MAX_CONCURRENT_REQUESTS)
            => (Finished(r)' /\ req'[r].status = 429)
       /\ (Arrives(r) /\ req'[r].status = 429) =>
            /\ Finished(r)'
            /\ UNCHANGED <<convState, currentConcurrentRequests, chat>>
            /\ \A q \in Reqs \ {r} : req'[q] = req[q]
            /\ ~req'[r].admitted /\ req'[r].released = 0
            /\ ~TranscoderInvoked(req'[r])
            /\ req'[r].tcalls = 0 /\ req'[r].scalls = 0
            /\ req'[r].sent = 0 /\ req'[r].notices = 0]_vars

C3_Witness ==
  \E r \in Reqs :
    /\ req[r].status = 429
    /\ currentConcurrentRequests = MAX_CONCURRENT_REQUESTS
    /\ lastSummary # Null /\ originalSummary # Null

\* C4: awaitingAmendment implies that a transcript is stored; /amend from
\* the target conversation while no transcript is stored changes nothing
\* and issues no inference call.
C4_AmendNeedsTranscript ==
  /\ [](awaitingAmendment => lastSummary # Null)
  /\ [][\A m \in Msgs :
          (Received(m) /\ chat'[m].from = "target" /\ IsAmendCmd(chat'[m].text)
             /\ lastSummary = Null)
          => (UNCHANGED convState /\ chat'[m].pc = "done" /\ chat'[m].calls = 0)]_vars

C4_Witness ==
  \E m, k \in Msgs :
    /\ chat[m].pc = "done" /\ chat[m].text = "/amend" /\ chat[m].branch = "none"
    /\ chat[k].pc = "done" /\ chat[k].text = "/amend" /\ chat[k].branch = "amend"
    /\ awaitingAmendment /\ lastSummary # Null

\* C5: a text message of the target conversation that is not a command,
\* received while awaitingAmendment is true, leaves the flag false; no later
\* step of that handler (whatever the outcome of its inference calls)
\* changes the flag.
C5_InstructionClearsFlag ==
  [][\A m \in Msgs :
       /\ (Received(m) /\ chat'[m].from = "target" /\ HasText(chat'[m].text)
             /\ ~StartsWithSlash(chat'[m].text) /\ awaitingAmendment)
          => (~awaitingAmendment' /\ chat'[m].branch = "instruction")
       /\ (chat[m].branch = "instruction" /\ chat'[m] # chat[m])
          => awaitingAmendment' = awaitingAmendment]_vars

C5_Witness ==
  \E m \in Msgs :
    /\ chat[m].branch = "instruction" /\ chat[m].text = "plain"
    /\ chat[m].pc = "done" /\ chat[m].calls = 1
    /\ ~awaitingAmendment

\* C6: within one upload, after a validation or transcoding failure no
\* inference call was made; after a failed transcription call the
\* transcript was not written and no summary call was made; after a failed
\* summary call the summary was not written and no fragment of the summary
\* message was sent.
C6_NoStepAfterFailure ==
  \A r \in Reqs :
    /\ req[r].cause \in {"validation", "transcoding"} =>
         req[r].tcalls = 0 /\ req[r].scalls = 0 /\ ~req[r].wroteT /\ ~req[r].wroteS
    /\ req[r].cause = "transcription" =>
         ~req[r].wroteT /\ req[r].scalls = 0 /\ ~req[r].wroteS /\ req[r].sent = 0
    /\ req[r].cause = "summarization" =>
         ~req[r].wroteS /\ req[r].sent = 0 /\ req[r].nfrag = 0
    /\ req[r].scalls > 0 => req[r].wroteT
    /\ req[r].sent > 0 => req[r].wroteS

C6_Witness ==
  \E r, q \in Reqs :
    /\ Finished(r) /\ req[r].cause = "transcription" /\ req[r].tcalls = 1
    /\ Finished(q) /\ req[q].cause = "summarization" /\ req[q].scalls = 1
         /\ req[q].wroteT

\* C7: a step in which an upload fails after its transcript was stored
\* (failed summary call, failed overload notice, failed delivery) leaves the
\* stored transcript and summary as they are; a stored text never goes back
\* to null.
C7_NoRollback ==
  /\ [](\A r \in Reqs : /\ req[r].wroteT => lastSummary # Null
                        /\ req[r].wroteS => originalSummary # Null)
  /\ [][\A r \in Reqs :
          (req[r].wroteT /\ ~Finished(r) /\ Finished(r)' /\ req'[r].status # 200)
          => (lastSummary' = lastSummary /\ originalSummary' = originalSummary)]_vars

C7_Witness ==
  \E r \in Reqs :
    /\ Finished(r) /\ req[r].cause = "delivery"
    /\ lastSummary.kind = "transcript" /\ lastSummary.up = r
    /\ originalSummary.kind = "summary" /\ originalSummary.up = r

\* C8 (as claimed): an admitted upload with an extension outside the
\* allow-list never reaches the transcoder, the inference endpoint or the
\* chat, and is answered 400.
C8_Claimed ==
  \A r \in Reqs :
    (req[r].admitted /\ req[r].file.present /\ req[r].file.ext \notin AllowedExts)
    => /\ ~TranscoderInvoked(req[r])
       /\ req[r].tcalls = 0 /\ req[r].scalls = 0
       /\ req[r].sent = 0 /\ req[r].notices = 0
       /\ (Finished(r) => req[r].status = 400)

\* C9 (as claimed): an upload whose transcription or summary call was
\* answered 'model is overloaded' is answered 503.
C9_Claimed ==
  \A r \in Reqs : (Finished(r) /\ req[r].overloaded) => req[r].status = 503

\* C10 (as claimed): the error answered for a failed delivery of the
\* summary message differs from every error answered for a failed inference
\* call.
C10_Claimed ==
  \A r, q \in Reqs :
    (/\ Finished(r) /\ req[r].cause = "delivery"
     /\ Finished(q) /\ req[q].cause \in {"transcription", "summarization"})
    => <<req[r].status, req[r].kind>> # <<req[q].status, req[q].kind>>

----------------------------------------------------------------------------
\* C11 (as claimed): every text passed to bot.sendMessage, by the upload
\* pipeline and by every branch of the chat dispatcher, is at most
\* MAX_TELEGRAM_MESSAGE_LENGTH characters long.
C11_Claimed ==
  /\ \A r \in Reqs : req[r].maxlen <= MAX_TELEGRAM_MESSAGE_LENGTH
  /\ \A m \in Msgs : chat[m].maxlen <= MAX_TELEGRAM_MESSAGE_LENGTH

----------------------------------------------------------------------------
\* C12: for every text T and positive maxLength L, the fragments that
\* splitMessage(T, L) returns are each at most L characters long and their
\* concatenation in order is exactly T (there are ceil(len(T)/L) of them,
\* all of length L except possibly the last).
C12_SplitPartition ==
  split.pc = "returned" =>
    /\ Concat(split.messages) = split.text
    /\ \A k \in 1..Len(split.messages) :
         /\ Len(split.messages[k]) <= split.maxLength
         /\ Len(split.messages[k])
              = FragmentLen(Len(split.text), split.maxLength, k)
    /\ Len(split.messages) = NumFragments(Len(split.text), split.maxLength)

\* a text that does not fit one fragment was split, the last fragment
\* being shorter than the others
C12_Witness ==
  /\ split.pc = "returned"
  /\ Len(split.messages) = 2
  /\ Len(split.messages[1]) = split.maxLength
  /\ Len(split.messages[2]) < split.maxLength

\* C13 (as claimed): for every text T with len(T) <= L, splitMessage(T, L)
\* returns exactly one fragment, equal to T.
C13_Claimed ==
  (split.pc = "returned" /\ Len(split.text) <= split.maxLength)
    => split.messages = <<split.text>>

\* C13 (amended): for every non-empty text T with len(T) <= L,
\* splitMessage(T, L) returns exactly one fragment, equal to T; for the
\* empty text it returns no fragment at all.
C13_ShortText ==
  (split.pc = "returned" /\ Len(split.text) <= split.maxLength)
    => split.messages = (IF split.text = <<>> THEN <<>> ELSE <<split.text>>)

\* a text of exactly maxLength characters came back as one fragment
C13_Witness ==
  /\ split.pc = "returned"
  /\ Len(split.text) = split.maxLength
  /\ split.maxLength > 1
  /\ split.messages = <<split.text>>

----------------------------------------------------------------------------
\* the /ask message m is answered by a guidance text and no inference call
\* is made for it
AskGuidance(m) ==
  /\ chat'[m].pc = "done"
  /\ chat'[m].calls = 0
  /\ chat'[m].sent = 1
  /\ chat'[m].maxlen \in {NoticeLen("no_question"), NoticeLen("upload_first")}

\* the conditions under which an /ask message may reach the inference
\* endpoint: a question, a transcript and a summary
AskAnswerable(t) ==
  HasQuestion(t) /\ Truthy(lastSummary) /\ Truthy(originalSummary)

\* C14 (as claimed): a message that starts with /ask issues an inference
\* call only if its question is non-empty and both the transcript and the
\* summary are populated; otherwise a guidance text is sent and no call is
\* made.
C14_Claimed ==
  [][\A m \in Msgs :
       (Received(m) /\ chat'[m].from = "target" /\ StartsWithAsk(chat'[m].text))
         => (AskAnswerable(chat'[m].text) \/ AskGuidance(m))]_vars

\* C14 (amended): a message that starts with /ask and is received while
\* awaitingAmendment is false issues an inference call only if its question
\* is non-empty and both the transcript and the summary are populated;
\* otherwise a guidance text is sent and no call is made.
C14_AskNeedsContext ==
  [][\A m \in Msgs :
       (Received(m) /\ chat'[m].from = "target" /\ StartsWithAsk(chat'[m].text)
          /\ ~awaitingAmendment)
         => /\ chat'[m].branch = "ask"
            /\ AskAnswerable(chat'[m].text) \/ AskGuidance(m)
            /\ chat'[m].calls > 0 => AskAnswerable(chat'[m].text)]_vars

\* '/ask q' arrived after the transcript was stored and while no summary
\* was: it got the guidance text and no call
C14_Witness ==
  \E m \in Msgs :
    /\ chat[m].text = "/ask q" /\ chat[m].branch = "ask"
    /\ chat[m].calls = 0 /\ chat[m].sent = 1
    /\ chat[m].maxlen = NoticeLen("upload_first")
    /\ \E r \in Reqs : req[r].wroteT /\ req[r].pc = "done" /\ ~req[r].wroteS
    /\ originalSummary = Null

----------------------------------------------------------------------------
\* message m, received in this step, comes from the target conversation, is
\* free text (no leading '/') and finds awaitingAmendment false
FreeTextArrives(m) ==
  /\ Received(m)
  /\ chat'[m].from = "target"
  /\ HasText(chat'[m].text) /\ ~StartsWithSlash(chat'[m].text)
  /\ ~awaitingAmendment

\* the summary becomes the raw text of message m, which is acknowledged;
\* no inference call, transcript and flag as they were
SummaryOverwritten(m) ==
  /\ originalSummary' = Text("manual", lastSummary.up, PlainLen)
  /\ chat'[m].sent = 1
  /\ chat'[m].maxlen = NoticeLen("updated:") + PlainLen
  /\ chat'[m].calls = 0
  /\ chat'[m].pc = "done"
  /\ UNCHANGED <<lastSummary, awaitingAmendment>>

\* C15 (as claimed): any free-text message from the target conversation
\* that arrives while awaitingAmendment is false sets the summary to the raw
\* message text and is acknowledged, without any inference call and without
\* changing the transcript or the flag.
C15_Claimed ==
  [][\A m \in Msgs : FreeTextArrives(m) => SummaryOverwritten(m)]_vars

\* C15 (amended): such a message does so when a transcript is stored; when
\* none is stored it is ignored: nothing is stored, sent or called.
C15_OverwriteNeedsTranscript ==
  [][\A m \in Msgs :
       FreeTextArrives(m) =>
         IF lastSummary # Null
         THEN SummaryOverwritten(m)
         ELSE /\ UNCHANGED convState
              /\ chat'[m].sent = 0 /\ chat'[m].calls = 0
              /\ chat'[m].pc = "done"]_vars

\* a free-text message replaced the summary of a stored transcript
C15_Witness ==
  \E m \in Msgs :
    /\ chat[m].text = "plain" /\ chat[m].branch = "overwrite"
    /\ chat[m].sent = 1 /\ chat[m].calls = 0
    /\ originalSummary = Text("manual", lastSummary.up, PlainLen)
    /\ lastSummary.kind = "transcript"

----------------------------------------------------------------------------
\* C16 (as claimed): GET /summary answers 200 with the stored summary
\* whenever a summary is stored, and 404 whenever none is stored, also
\* when a transcript is stored and the summary call failed.
C16_Claimed ==
  [][summaryResponse' # summaryResponse =>
       summaryResponse' =
         IF originalSummary # Null
         THEN [status |-> 200, body |-> originalSummary]
         ELSE [status |-> 404, body |-> Null]]_vars

----------------------------------------------------------------------------
\* no upload and no chat handler is between its entry and its return
Quiescent ==
  /\ \A r \in Reqs : req[r].pc \in {"new", "done"}
  /\ \A m \in Msgs : chat[m].pc \in {"new", "done"}

\* C17 (as claimed): an upload and a chat amendment that run concurrently
\* do not interleave destructively.  Whenever nothing is in flight the
\* stored summary derives from the stored transcript, and no amendment
\* result computed from a summary that an upload has since replaced is
\* stored over that upload's summary.
C17_Claimed ==
  /\ Quiescent =>
       (originalSummary = Null \/ originalSummary.up = lastSummary.up)
  /\ \A m \in Msgs : ~chat[m].stale

----------------------------------------------------------------------------
\* C18: a chat message from a conversation other than the configured
\* target is ignored entirely, whatever its text and the current state:
\* transcript, summary and flag are unchanged, no inference call is made
\* and no chat message is sent (the handler returns at once, the uploads
\* are not touched).
C18_ForeignIgnored ==
  [][\A m \in Msgs :
       (Received(m) /\ chat'[m].from # "target")
         => /\ UNCHANGED <<convState, currentConcurrentRequests, req>>
            /\ chat'[m].pc = "done"
            /\ chat'[m].branch = "none"
            /\ chat'[m].calls = 0
            /\ chat'[m].sent = 0
            /\ chat'[m].maxlen = 0]_vars

\* the target conversation was sent the stored transcript, then '/amend'
\* arrived from another conversation: nothing was sent or called for it and
\* the flag is still false
C18_Witness ==
  /\ chat[1].from = "target" /\ chat[1].text = "/transcription"
  /\ chat[1].pc = "done" /\ chat[1].sent >= 1
  /\ chat[1].maxlen > NoticeLen("no_transcription")
  /\ chat[2].from = "other" /\ chat[2].text = "/amend"
  /\ chat[2].pc = "done" /\ chat[2].sent = 0 /\ chat[2].calls = 0
  /\ lastSummary # Null
  /\ ~awaitingAmendment

----------------------------------------------------------------------------
\* within request r the transcription call succeeded and the transcript was
\* stored, the summary call succeeded and the summary was stored, and every
\* fragment of the composed message was delivered, one call per fragment
FullSuccess(r) ==
  /\ req[r].tcalls = 1 /\ req[r].wroteT
  /\ req[r].scalls = 1 /\ req[r].wroteS
  /\ req[r].nfrag >= 1
  /\ req[r].frag = req[r].nfrag
  /\ req[r].sent = req[r].nfrag
  /\ req[r].cause = "none"

\* C19: an upload is answered 200 only on full success: its transcript was
\* stored, then its summary was stored, then every fragment of the
\* 'Summary:' message was sent in order, fragment k being passed to the
\* transport only once the k-1 fragments before it were delivered; every
\* other outcome is answered with a status other than 200.
C19_OkOnlyOnFullSuccess ==
  \A r \in Reqs :
    /\ req[r].status = 200 => (Finished(r) /\ FullSuccess(r))
    /\ (Finished(r) /\ ~FullSuccess(r)) => req[r].status \in {400, 429, 500, 503}
    /\ req[r].wroteS => req[r].wroteT
    /\ req[r].pc = "delivering" =>
         /\ req[r].wroteS /\ req[r].status = 0
         /\ req[r].frag \in 1..req[r].nfrag
         /\ req[r].sent = req[r].frag - 1
    /\ req[r].sent > 0 => req[r].wroteS

\* an upload whose message took two fragments was answered 200
C19_Witness ==
  \E r \in Reqs :
    /\ req[r].status = 200
    /\ req[r].nfrag = 2
    /\ req[r].sent = 2

----------------------------------------------------------------------------
\* the flag changes only when a text message from the target conversation
\* enters the dispatcher
FlagChangesOnReceipt ==
  awaitingAmendment' # awaitingAmendment =>
    \E m \in Msgs : /\ Received(m)
                     /\ chat'[m].from = "target"
                     /\ HasText(chat'[m].text)

\* what a text message m from the target conversation does to the flag,
\* Keeps being the texts that leave a raised flag as it is
FlagStep(m, Keeps) ==
  LET t == chat'[m].text
  IN  (Received(m) /\ chat'[m].from = "target" /\ HasText(t)) =>
        IF IsAmendCmd(t) /\ lastSummary # Null
        THEN awaitingAmendment' /\ chat'[m].branch = "amend"
        ELSE IF ~awaitingAmendment
        THEN ~awaitingAmendment' /\ chat'[m].branch # "instruction"
        ELSE IF t \in Keeps
        THEN awaitingAmendment' /\ chat'[m].branch # "instruction"
        ELSE ~awaitingAmendment' /\ chat'[m].branch = "instruction"

\* C20 (as claimed): awaitingAmendment is true exactly from an accepted
\* /amend to the next non-command message of the target conversation; a
\* command received in between (/transcription, /ask <question>, /amend
\* again) leaves the flag true and is not consumed as the instruction.
C20_Claimed ==
  [][FlagChangesOnReceipt
     /\ \A m \in Msgs :
          FlagStep(m, {t \in MsgTexts : StartsWithSlash(t)})]_vars

\* C20 (amended): awaitingAmendment is true exactly from an accepted /amend
\* to the next text message of the target conversation other than
\* /transcription and /amend; those two leave the flag true and are not
\* consumed, every other text, /ask <question> included, is consumed as
\* the amendment instruction and clears the flag.
C20_FlagLifecycle ==
  [][FlagChangesOnReceipt
     /\ \A m \in Msgs : FlagStep(m, {"/transcription", "/amend"})]_vars

\* /amend was accepted, then /transcription arrived: the flag is still
\* true and the transcript is being sent
C20_Witness ==
  /\ chat[1].from = "target" /\ chat[1].branch = "amend"
  /\ chat[2].from = "target" /\ chat[2].branch = "transcription"
  /\ chat[2].pc = "sendingT"
  /\ awaitingAmendment

----------------------------------------------------------------------------
\* this step is a step of the handler of chat message m
HandlerStep(m) == chat'[m] # chat[m]

\* C21 (as claimed): handling an '/ask <question>' message never changes
\* the transcript, the summary or awaitingAmendment, in whatever state it is
\* received (awaitingAmendment true included) and whether its call
\* succeeds or fails.
C21_Claimed ==
  [][\A m \in Msgs :
       (HandlerStep(m) /\ chat'[m].from = "target" /\ chat'[m].text = "/ask q")
         => UNCHANGED convState]_vars

\* C21 (amended): an '/ask <question>' message received while
\* awaitingAmendment is false is handled by the /ask branch, and no step of
\* that handling changes the transcript, the summary or the flag, whether
\* its call succeeds or fails.
C21_AskLeavesState ==
  [][\A m \in Msgs :
       /\ (Received(m) /\ chat'[m].from = "target" /\ chat'[m].text = "/ask q"
             /\ ~awaitingAmendment)
            => (chat'[m].branch = "ask" /\ UNCHANGED convState)
       /\ (HandlerStep(m) /\ chat[m].text = "/ask q" /\ chat[m].branch = "ask")
            => UNCHANGED convState]_vars

\* '/ask q' was answered from a stored transcript and summary: one call,
\* the answer relayed, the summary still the generated one
C21_Witness ==
  \E m \in Msgs :
    /\ chat[m].text = "/ask q" /\ chat[m].branch = "ask"
    /\ chat[m].pc = "done" /\ chat[m].calls = 1 /\ chat[m].sent = 1
    /\ chat[m].results = 1
    /\ chat[m].maxlen = NoticeLen("answer:") + 100
    /\ originalSummary.kind = "summary" /\ lastSummary.kind = "transcript"

----------------------------------------------------------------------------
\* the call that handler m awaits returns a text in this step
CallSucceeds(m) == chat'[m].results = chat[m].results + 1

\* in this step handler m stores a text of the given kind as the summary
\* and passes it, behind the given label, to the chat
StoresAndReports(m, kind, label) ==
  \E n \in ResultLens :
    /\ originalSummary' = Text(kind, chat[m].origin, n)
    /\ chat'[m].sent = chat[m].sent + 1
    /\ chat'[m].maxlen >= NoticeLen(label) + n

\* C22: for an amendment instruction, a failed first call leaves the
\* summary as it is; a successful one overwrites the summary with its result,
\* sends the 'amended' notice and issues the regeneration call; a successful
\* regeneration call overwrites the summary again and sends the distinct
\* 'regenerated' notice; a failed regeneration call leaves the stored
\* (amended) summary untouched.
C22_AmendOutcomes ==
  [][\A m \in Msgs :
       /\ (HandlerStep(m) /\ chat[m].pc = "amending") =>
            IF CallSucceeds(m)
            THEN /\ StoresAndReports(m, "amended", "amended:")
                 /\ chat'[m].pc = "regenerating"
                 /\ chat'[m].calls = chat[m].calls + 1
            ELSE /\ UNCHANGED originalSummary
                 /\ chat'[m].pc \in {"done", "notify"}
                 /\ chat'[m].calls = chat[m].calls
       /\ (HandlerStep(m) /\ chat[m].pc = "regenerating") =>
            IF CallSucceeds(m)
            THEN /\ StoresAndReports(m, "regenerated", "regenerated:")
                 /\ chat'[m].pc = "done"
            ELSE /\ UNCHANGED originalSummary
                 /\ chat'[m].pc \in {"done", "notify"}
       /\ (HandlerStep(m) /\ chat[m].pc = "notify") => UNCHANGED originalSummary]_vars

\* the amendment call succeeded and the regeneration call failed: both
\* calls were made, one returned a text, and the amended summary is stored
C22_Witness ==
  \E m \in Msgs :
    /\ chat[m].branch = "instruction" /\ chat[m].pc = "done"
    /\ chat[m].calls = 2 /\ chat[m].results = 1
    /\ originalSummary.kind = "amended"

----------------------------------------------------------------------------
\* C23: provided every external call eventually completes or errors, every
\* admitted upload eventually releases its admission slot, and the counter
\* of uploads in flight eventually returns to 0 and stays there once no
\* further upload arrives.
C23_SlotsReleased ==
  /\ \A r \in Reqs :
       (req[r].admitted /\ req[r].released = 0) ~> (req[r].released = 1)
  /\ <>[](currentConcurrentRequests = 0)

\* two uploads were in flight together, one failed and one succeeded, both
\* have released their slots
C23_Witness ==
  /\ \E r \in Reqs : req[r].admitted /\ req[r].released = 1 /\ req[r].status = 500
  /\ \E r \in Reqs : req[r].admitted /\ req[r].released = 1 /\ req[r].status = 200
  /\ \A r \in Reqs : req[r].admitted => Finished(r)
  /\ currentConcurrentRequests = 0

----------------------------------------------------------------------------
\* C24 (as claimed): once two uploads, in flight together or not and with
\* their calls returning in any order, have both completed successfully,
\* the stored transcript and the stored summary come from the same upload.
C24_Claimed ==
  (\A r \in 1..2 : req[r].status = 200) =>
    (lastSummary.kind = "transcript" /\ originalSummary.kind = "summary"
       => lastSummary.up = originalSummary.up)

----------------------------------------------------------------------------
\* C25 (as claimed): when an upload over the compression threshold was
\* transcoded successfully, the attachment of its transcription call
\* carries the re-encoded bytes with the MIME type audio/mpeg, whatever the
\* allowed extension of the original file.
C25_Claimed ==
  \A r \in Reqs :
    (req[r].pc = "transcribing" /\ req[r].encoding = "mp3")
      => req[r].mime = "audio/mpeg"

----------------------------------------------------------------------------
\* C26 (as claimed): the amendment call is only ever issued with a
\* populated summary: no handler awaits an amendment call whose prompt
\* was built from an absent summary.
C26_Claimed ==
  \A m \in Msgs : chat[m].pc = "amending" => chat[m].base # Null

----------------------------------------------------------------------------
\* an upload that has entered the handler has been answered once when the
\* handler has returned, and not at all while it awaits an external call
OneResponse ==
  \A r \in Reqs :
    /\ req[r].responses <= 1
    /\ Finished(r) => (req[r].responses = 1 /\ req[r].status # 0)
    /\ ~Finished(r) => (req[r].responses = 0 /\ req[r].status = 0)

\* C27: every upload that reaches the handler receives exactly one HTTP
\* response, never two and, provided its external calls return or throw,
\* never none, on every path through the handler.
C27_ExactlyOneResponse ==
  /\ []OneResponse
  /\ \A r \in Reqs : (req[r].pc # "new") ~> (req[r].responses = 1)

\* uploads were answered once after an overload notice and once after a
\* failed delivery
C27_Witness ==
  /\ \E r \in Reqs : /\ req[r].status = 503 /\ req[r].notices = 1
                       /\ req[r].responses = 1
  /\ \E r \in Reqs : /\ req[r].cause = "delivery" /\ req[r].status = 500
                       /\ req[r].responses = 1

====
